---- MODULE Spec2Model ----
(***************************************************************************)
(* Model of aifity/github-mcp-server: the body text filter                 *)
(* (pkg/bodyfilter), the repository path validator and the local git tool  *)
(* handlers (pkg/git).                                                     *)
(*                                                                         *)
(* Text is a sequence of tokens.  Each token stands for one fixed piece of *)
(* text, chosen so that the two default regular expressions match a token  *)
(* sequence exactly as Go's regexp matches its concatenated text:          *)
(*   "CA"  the text  Co-Authored-By:                                       *)
(*   "HR"  the text  ---                                                   *)
(*   "PR"  the text  Pull Request opened by [T](u) with guidance from      *)
(*         (without the space that follows it in the footer pattern)       *)
(*   "NL"  a newline, "SP" a space, "w" the letter x                       *)
(*   "ca"  the text  co-authored-by:   "sob"  the text  Signed-off-by:     *)
(* A path is a sequence of characters "/", "r" and ".".                    *)
(***************************************************************************)
EXTENDS Integers, Sequences, FiniteSets, TLC

VARIABLES
    filterPatterns,  \* bodyfilter.filterPatterns: the compiled rules, in order
    body,            \* argument of the last FilterBody call
    firstPass,       \* result of the last FilterBody call on a fresh input
    secondPass,      \* result of FilterBody applied to firstPass
    fpc,             \* "idle", "first" (firstPass set), "second" (secondPass set)
    lastPatterns,    \* argument of the last SetFilterPatterns call
    noted,           \* a (lastPatterns, filterPatterns) pair a caller wrote down
    fs,              \* filesystem: kind of each node of FsNodes
    cwd,             \* the process's working directory, or CwdErr
    allowedPaths,    \* GetRepoPaths(): the configured repository roots
    call,            \* the validateRepoPath call in progress, or NoCall
    recall,          \* a second validateRepoPath call for the same request
    req,             \* the tool request in progress, or NoReq
    setter,          \* a SetFilterPatterns call in progress, statement by statement
    seen,            \* the rule set a FilterBody call read while setter was running
    config,          \* the file github-mcp-server-config.json
    env,             \* the GITHUB_MCP_<KEY> environment variables
    helper,          \* the viper instance of TranslationHelper and what it did
    translationKeyMap,  \* the map captured by the lookup function
    firstAnswer,     \* for each key, the value its first lookup returned
    lookup,          \* the lookup call in progress, or NoLookup
    dump             \* the DumpTranslationKeyMap call that ended the process

vars == <<filterPatterns, body, firstPass, secondPass, fpc, lastPatterns, noted,
          fs, cwd, allowedPaths, call, recall, req, setter, seen,
          config, env, helper, translationKeyMap, firstAnswer, lookup, dump>>

filterVars == <<filterPatterns, body, firstPass, secondPass, fpc,
                lastPatterns, noted>>
pathVars == <<fs, cwd, allowedPaths, call, recall>>
raceVars == <<setter, seen>>
transVars == <<config, env, helper, translationKeyMap, firstAnswer, lookup, dump>>

-----------------------------------------------------------------------------
(* Bounds *)

MaxLen == 5        \* longest text handed to FilterBody, in tokens
MaxLines == 4      \* most lines of a text made of whole lines
MaxPathLen == 5    \* longest requested path, in characters
MaxToolPathLen == 3  \* longest repo_path argument of a tool request

-----------------------------------------------------------------------------
(* Text *)

Token == {"CA", "HR", "PR", "NL", "SP", "w"}

SeqsUpTo(S, n) == UNION {[1..k -> S] : k \in 0..n}

Texts == SeqsUpTo(Token, MaxLen)

\* Whole lines: ordinary text, a marker, a co-author trailer, the attribution
\* phrase, a one-line footer, a lower-case trailer and a Signed-off-by trailer.
LineKinds ==
    { <<"w">>, <<"HR">>, <<"CA", "w">>, <<"PR", "SP", "w">>,
      <<"HR", "PR", "SP", "w">>, <<"ca", "w">>, <<"sob", "w">> }

\* The lines of ls joined by newlines.
RECURSIVE JoinLines(_)
JoinLines(ls) ==
    IF ls = <<>> THEN <<>>
    ELSE IF Len(ls) = 1 THEN ls[1]
    ELSE ls[1] \o <<"NL">> \o JoinLines(Tail(ls))

LineTexts == {JoinLines(ls) : ls \in SeqsUpTo(LineKinds, MaxLines)}

\* The texts handed to FilterBody.
Inputs == Texts \cup LineTexts

\* unicode.IsSpace on the tokens: newline and space.
IsSpace(t) == t \in {"NL", "SP"}

\* Index of the first newline at or after i, or Len(s)+1: the end of the line.
RECURSIVE LineEnd(_, _)
LineEnd(s, i) ==
    IF i > Len(s) \/ s[i] = "NL" THEN i ELSE LineEnd(s, i + 1)

\* Index of the first token at or after i that \s does not match.
RECURSIVE SkipSpace(_, _)
SkipSpace(s, i) ==
    IF i <= Len(s) /\ IsSpace(s[i]) THEN SkipSpace(s, i + 1) ELSE i

\* The source patterns of defaultFilterPatterns.
CoAuthorPattern == "(?m)^Co-Authored-By:.*$"
FooterPattern == "(?s)---\\s*Pull Request opened by \\[[^\\]]+\\]\\([^)]+\\) with guidance from [^\\n]+"

defaultFilterPatterns == <<CoAuthorPattern, FooterPattern>>

\* Two patterns a configuration can supply: one that matches the letter x and
\* one that regexp.Compile rejects (missing closing bracket).
LetterPattern == "x"
BadPattern == "["

\* Co-Authored-By:.*$ without the ^ anchor, tried at position i.
MatchCoAuthorAnywhere(s, i) ==
    IF i <= Len(s) /\ s[i] = "CA" THEN LineEnd(s, i) ELSE 0

\* (?m)^Co-Authored-By:.*$ tried at position i: the index just past the match,
\* or 0 when there is none.  ^ holds at the start of the text and after a
\* newline; .* runs to the end of the line.
MatchCoAuthor(s, i) ==
    IF /\ i <= Len(s)
       /\ (i = 1 \/ s[i - 1] = "NL")
       /\ s[i] = "CA"
    THEN LineEnd(s, i)
    ELSE 0

\* The footer pattern ending in .+ instead of [^\n]+: under (?s) the match runs
\* to the end of the text.
MatchFooterToEnd(s, i) ==
    IF i <= Len(s) /\ s[i] = "HR"
    THEN LET j == SkipSpace(s, i + 1)
         IN  IF j + 2 <= Len(s) /\ s[j] = "PR" /\ s[j + 1] = "SP"
             THEN Len(s) + 1
             ELSE 0
    ELSE 0

\* (?s)---\s*Pull Request opened by \[[^\]]+\]\([^)]+\) with guidance from [^\n]+
\* tried at position i: the index just past the match, or 0.  \s* takes all
\* the whitespace after the marker; the phrase is followed by one space and
\* [^\n]+ takes at least one token, up to the end of the line.
MatchFooter(s, i) ==
    IF i <= Len(s) /\ s[i] = "HR"
    THEN LET j == SkipSpace(s, i + 1)
         IN  IF /\ j + 2 <= Len(s)
                /\ s[j] = "PR"
                /\ s[j + 1] = "SP"
                /\ s[j + 2] # "NL"
             THEN LineEnd(s, j + 2)
             ELSE 0
    ELSE 0

\* x tried at position i: the index just past the match, or 0.
MatchLetter(s, i) ==
    IF i <= Len(s) /\ s[i] = "w" THEN i + 1 ELSE 0

\* A compiled *regexp.Regexp tried at position i of s.
MatchAt(re, s, i) ==
    CASE re = CoAuthorPattern -> MatchCoAuthor(s, i)
      [] re = FooterPattern -> MatchFooter(s, i)
      [] re = LetterPattern -> MatchLetter(s, i)
      [] OTHER -> 0

\* re.MatchString(s): the pattern matches somewhere in s.
Matches(re, s) == \E i \in 1..Len(s) : MatchAt(re, s, i) # 0

\* re.ReplaceAllString(s, "") from position i on: successive leftmost,
\* non-overlapping matches are dropped, everything else is copied.
RECURSIVE ReplaceFrom(_, _, _)
ReplaceFrom(re, s, i) ==
    IF i > Len(s) THEN <<>>
    ELSE LET e == MatchAt(re, s, i)
         IN  IF e # 0 THEN ReplaceFrom(re, s, e)
             ELSE <<s[i]>> \o ReplaceFrom(re, s, i + 1)

ReplaceAllString(re, s) == ReplaceFrom(re, s, 1)

\* Number of consecutive newlines starting at position i.
RECURSIVE NewlineRun(_, _)
NewlineRun(s, i) ==
    IF i <= Len(s) /\ s[i] = "NL" THEN 1 + NewlineRun(s, i + 1) ELSE 0

\* The collapse with the pattern \n{2,}: a run of two newlines is rewritten too.
RECURSIVE CollapseFromTwo(_, _)
CollapseFromTwo(s, i) ==
    IF i > Len(s) THEN <<>>
    ELSE LET n == NewlineRun(s, i)
         IN  IF n >= 2 THEN <<"NL">> \o CollapseFromTwo(s, i + n)
             ELSE <<s[i]>> \o CollapseFromTwo(s, i + 1)

\* regexp.MustCompile(`\n{3,}`).ReplaceAllString(s, "\n\n") from position i on.
RECURSIVE CollapseFrom(_, _)
CollapseFrom(s, i) ==
    IF i > Len(s) THEN <<>>
    ELSE LET n == NewlineRun(s, i)
         IN  IF n >= 3 THEN <<"NL", "NL">> \o CollapseFrom(s, i + n)
             ELSE <<s[i]>> \o CollapseFrom(s, i + 1)

CollapseNewlines(s) == CollapseFrom(s, 1)

\* strings.TrimSpace
RECURSIVE TrimLeft(_)
TrimLeft(s) ==
    IF s # <<>> /\ IsSpace(Head(s)) THEN TrimLeft(Tail(s)) ELSE s

RECURSIVE TrimRight(_)
TrimRight(s) ==
    IF s # <<>> /\ IsSpace(s[Len(s)])
    THEN TrimRight(SubSeq(s, 1, Len(s) - 1))
    ELSE s

\* strings.TrimRightFunc(s, unicode.IsSpace) in place of strings.TrimSpace.
TrimSpaceRightOnly(s) == TrimRight(s)

TrimSpace(s) == TrimRight(TrimLeft(s))

\* A loop that collapses newline runs and trims after every pattern.
RECURSIVE ApplyPatternsNormalizing(_, _)
ApplyPatternsNormalizing(patterns, s) ==
    IF patterns = <<>> THEN s
    ELSE ApplyPatternsNormalizing(Tail(patterns),
             TrimSpace(CollapseNewlines(ReplaceAllString(Head(patterns), s))))

\* A loop that leaves after its first pattern.
ApplyFirstPatternOnly(patterns, s) ==
    IF patterns = <<>> THEN s ELSE ReplaceAllString(Head(patterns), s)

\* The loop of FilterBody: each pattern is applied to the result of the
\* previous one.
RECURSIVE ApplyPatterns(_, _)
ApplyPatterns(patterns, s) ==
    IF patterns = <<>> THEN s
    ELSE ApplyPatterns(Tail(patterns), ReplaceAllString(Head(patterns), s))

\* A FilterBody without the fast path whose result is newline-terminated.
FilterBodyNewlineTerminated(patterns, b) ==
    TrimSpace(CollapseNewlines(ApplyPatterns(patterns, b))) \o <<"NL">>

\* A FilterBody that collapses newline runs before the rules are applied.
FilterBodyCollapseFirst(patterns, b) ==
    IF b = <<>> THEN b
    ELSE TrimSpace(ApplyPatterns(patterns, CollapseNewlines(b)))

\* FilterBody(b) under the compiled rules patterns.
FilterBodyWith(patterns, b) ==
    IF b = <<>> THEN b
    ELSE TrimSpace(CollapseNewlines(ApplyPatterns(patterns, b)))

\* regexp.Compile: every pattern of the model but BadPattern compiles.
Compiles(pattern) == pattern \in {CoAuthorPattern, FooterPattern, LetterPattern}

\* A loop that leaves at the first pattern that does not compile.
RECURSIVE CompileUntilError(_)
CompileUntilError(patterns) ==
    IF patterns = <<>> THEN <<>>
    ELSE IF Compiles(Head(patterns))
         THEN <<Head(patterns)>> \o CompileUntilError(Tail(patterns))
         ELSE <<>>

\* SetFilterPatterns: the patterns that compile, in order.
RECURSIVE CompileAll(_)
CompileAll(patterns) ==
    IF patterns = <<>> THEN <<>>
    ELSE IF Compiles(Head(patterns))
         THEN <<Head(patterns)>> \o CompileAll(Tail(patterns))
         ELSE CompileAll(Tail(patterns))

\* A SetFilterPatterns that appends to the rule set it finds.
InstalledAppended(old, patterns) == old \o CompileAll(patterns)

\* The rule set SetFilterPatterns(patterns) leaves behind when the rule set
\* before the call was old: a fresh slice, then one append per pattern that
\* compiles.
Installed(old, patterns) == CompileAll(patterns)

\* The pattern lists a caller configures.
PatternLists ==
    { <<>>, defaultFilterPatterns, <<FooterPattern, CoAuthorPattern>>,
      <<CoAuthorPattern>>, <<FooterPattern>>, <<LetterPattern>>,
      <<LetterPattern, CoAuthorPattern>>, <<CoAuthorPattern, LetterPattern>>,
      <<BadPattern>>, <<BadPattern, CoAuthorPattern>>,
      <<CoAuthorPattern, BadPattern, FooterPattern>> }

NothingNoted == [arg |-> <<"none">>, rules |-> <<>>]

NoSetter == [pc |-> "idle"]
NothingSeen == <<"nothing read">>

-----------------------------------------------------------------------------
(* Filter engine: state and operations *)

\* Package initialisation: init() installs the default patterns.
FilterInit ==
    /\ filterPatterns = Installed(<<>>, defaultFilterPatterns)
    /\ lastPatterns = defaultFilterPatterns
    /\ noted = NothingNoted
    /\ body = <<>>
    /\ firstPass = <<>>
    /\ secondPass = <<>>
    /\ fpc = "idle"
    /\ setter = NoSetter
    /\ seen = NothingSeen

\* A caller runs SetFilterPatterns(patterns).  The function has no result and
\* no failure path.
SetFilterPatterns ==
    /\ fpc = "idle"
    /\ \E patterns \in PatternLists :
          /\ filterPatterns' = Installed(filterPatterns, patterns)
          /\ lastPatterns' = patterns
    /\ UNCHANGED <<body, firstPass, secondPass, fpc, noted>>
    /\ UNCHANGED <<pathVars, req, raceVars, transVars>>

\* A caller writes down the argument of the last SetFilterPatterns call and the
\* rule set it reads in filterPatterns.
Observe ==
    /\ fpc = "idle"
    /\ noted' = [arg |-> lastPatterns, rules |-> filterPatterns]
    /\ UNCHANGED <<filterPatterns, lastPatterns, body, firstPass, secondPass, fpc>>
    /\ UNCHANGED <<pathVars, req, raceVars, transVars>>

\* A FilterBody that uses up the first rule of the rule set.
FilterBodyConsuming ==
    /\ fpc = "idle"
    /\ \E x \in Inputs :
          /\ body' = x
          /\ firstPass' = FilterBodyWith(filterPatterns, x)
    /\ fpc' = "first"
    /\ filterPatterns' = IF filterPatterns = <<>> THEN <<>> ELSE Tail(filterPatterns)
    /\ UNCHANGED <<secondPass, lastPatterns, noted>>
    /\ UNCHANGED <<pathVars, req, raceVars, transVars>>

\* A caller runs FilterBody(x) on a fresh input x.
FilterBody ==
    /\ fpc = "idle"
    /\ \E x \in Inputs :
          /\ body' = x
          /\ firstPass' = FilterBodyWith(filterPatterns, x)
    /\ fpc' = "first"
    /\ UNCHANGED <<filterPatterns, secondPass, lastPatterns, noted>>
    /\ UNCHANGED <<pathVars, req, raceVars, transVars>>

\* The caller runs FilterBody on the result of its previous call.
FilterBodyAgain ==
    /\ fpc = "first"
    /\ secondPass' = FilterBodyWith(filterPatterns, firstPass)
    /\ fpc' = "second"
    /\ UNCHANGED <<filterPatterns, body, firstPass, lastPatterns, noted>>
    /\ UNCHANGED <<pathVars, req, raceVars, transVars>>

\* The caller runs FilterBody a second time on the same input.
FilterBodySame ==
    /\ fpc = "first"
    /\ secondPass' = FilterBodyWith(filterPatterns, body)
    /\ fpc' = "same"
    /\ UNCHANGED <<filterPatterns, body, firstPass, lastPatterns, noted>>
    /\ UNCHANGED <<pathVars, req, raceVars, transVars>>

\* The caller is done with its results.
FilterDone ==
    /\ fpc # "idle"
    /\ body' = <<>>
    /\ firstPass' = <<>>
    /\ secondPass' = <<>>
    /\ fpc' = "idle"
    /\ seen' = NothingSeen
    /\ UNCHANGED <<filterPatterns, lastPatterns, noted, setter>>
    /\ UNCHANGED <<pathVars, req, transVars>>

-----------------------------------------------------------------------------
(* Filter engine: SetFilterPatterns statement by statement, and a FilterBody *)
(* call in another goroutine.  Neither function takes a lock.               *)

\* The texts the concurrent caller filters.
RaceInputs ==
    { <<>>, <<"w">>, <<"CA", "w", "NL", "HR", "PR", "SP", "w">> }

Crash == <<"nil pointer dereference">>
Panicked == <<"panic">>

\* What `range filterPatterns` can read while a SetFilterPatterns call that
\* found the rule set before is running and has appended appended so far.  The
\* slice header is read without synchronisation: the pointer and the length may
\* come from different moments.  With both from the new slice the reader gets a
\* prefix of what was appended; with both from the old slice, the old rule set;
\* with the old array and a new length, a prefix of the old set, or entries
\* past its end; with the new array and the old length, entries not yet
\* appended, which are nil.
ReadableRuleSets(before, appended) ==
    {SubSeq(appended, 1, j) : j \in 0..Len(appended)}
    \cup {before}
    \cup {SubSeq(before, 1, j) : j \in {k \in 0..Len(appended) : k <= Len(before)}}
    \cup (IF Len(before) # Len(appended) THEN {Crash} ELSE {})

\* filterPatterns = make([]*regexp.Regexp, 0, len(patterns))
SetFilterPatternsMake ==
    /\ setter.pc = "idle" /\ fpc = "idle"
    /\ \E patterns \in PatternLists :
          /\ setter' = [pc |-> "loop", patterns |-> patterns, i |-> 1,
                        before |-> filterPatterns]
          /\ lastPatterns' = patterns
    /\ filterPatterns' = <<>>
    /\ UNCHANGED <<body, firstPass, secondPass, fpc, noted, seen>>
    /\ UNCHANGED <<pathVars, req, transVars>>

\* One iteration of the loop: compile patterns[i]; append it, or log and go on.
SetFilterPatternsIterate ==
    /\ setter.pc = "loop" /\ fpc = "idle"
    /\ setter.i <= Len(setter.patterns)
    /\ filterPatterns' = IF Compiles(setter.patterns[setter.i])
                         THEN Append(filterPatterns, setter.patterns[setter.i])
                         ELSE filterPatterns
    /\ setter' = [setter EXCEPT !.i = @ + 1]
    /\ UNCHANGED <<body, firstPass, secondPass, fpc, noted, lastPatterns, seen>>
    /\ UNCHANGED <<pathVars, req, transVars>>

\* The loop is over and SetFilterPatterns returns.
SetFilterPatternsReturn ==
    /\ setter.pc = "loop" /\ fpc = "idle"
    /\ setter.i > Len(setter.patterns)
    /\ setter' = NoSetter
    /\ UNCHANGED <<filterVars, seen>>
    /\ UNCHANGED <<pathVars, req, transVars>>

\* Another goroutine runs FilterBody(x) while the SetFilterPatterns call is
\* between two of its statements.  The empty text returns before the rule
\* set is read.
FilterBodyRacing ==
    /\ setter.pc = "loop" /\ fpc = "idle"
    /\ \E x \in RaceInputs :
          \E rules \in ReadableRuleSets(setter.before, filterPatterns) :
             /\ seen' = IF x = <<>> THEN NothingSeen ELSE rules
             /\ body' = x
             /\ firstPass' = IF x = <<>> THEN x
                             ELSE IF rules = Crash THEN Panicked
                             ELSE FilterBodyWith(rules, x)
    /\ fpc' = "first"
    /\ UNCHANGED <<filterPatterns, secondPass, lastPatterns, noted, setter>>
    /\ UNCHANGED <<pathVars, req, transVars>>

-----------------------------------------------------------------------------
(* Paths and the filesystem *)

PathChar == {"/", "r", "."}

Paths == SeqsUpTo(PathChar, MaxPathLen)

RootR == <<"/", "r">>              \* /r
SiblingRR == <<"/", "r", "r">>     \* /rr
SubR == <<"/", "r", "/", "r">>     \* /r/r

FsNodes == {RootR, SiblingRR, SubR}

\* "repo": a directory holding a .git entry; "dir": a directory without one;
\* "file": a regular file; "noperm": a directory without a .git entry whose
\* mode denies search; "none": nothing there.
Kinds == {"repo", "dir", "file", "noperm", "none"}

CwdErr == <<"getwd failed">>
Cwds == {RootR, CwdErr}

\* GetRepoPaths() as configured at startup.
AllowedLists == {<<>>, <<RootR>>, <<SubR>>, <<RootR, SiblingRR>>, <<SiblingRR, RootR>>}

\* strings.HasPrefix
HasPrefix(s, prefix) ==
    /\ Len(prefix) <= Len(s)
    /\ SubSeq(s, 1, Len(prefix)) = prefix

\* The path elements of s: the runs between slashes, empty ones included.
RECURSIVE SplitFrom(_, _, _)
SplitFrom(s, i, cur) ==
    IF i > Len(s) THEN <<cur>>
    ELSE IF s[i] = "/" THEN <<cur>> \o SplitFrom(s, i + 1, <<>>)
    ELSE SplitFrom(s, i + 1, Append(cur, s[i]))

Elements(s) == SplitFrom(s, 1, <<>>)

Dot == <<".">>
DotDot == <<".", ".">>

\* The element loop of filepath.Clean: empty and "." elements are dropped,
\* ".." removes the element before it; at the root it is dropped, in a
\* relative path with nothing to remove it is kept.
RECURSIVE CleanElements(_, _, _)
CleanElements(elems, rooted, out) ==
    IF elems = <<>> THEN out
    ELSE LET e == Head(elems)
             rest == Tail(elems)
         IN  IF e = <<>> \/ e = Dot THEN CleanElements(rest, rooted, out)
             ELSE IF e = DotDot
                  THEN IF out # <<>> /\ out[Len(out)] # DotDot
                       THEN CleanElements(rest, rooted, SubSeq(out, 1, Len(out) - 1))
                       ELSE IF rooted THEN CleanElements(rest, rooted, out)
                       ELSE CleanElements(rest, rooted, Append(out, e))
             ELSE CleanElements(rest, rooted, Append(out, e))

\* The elements joined by single slashes.
RECURSIVE JoinElements(_)
JoinElements(elems) ==
    IF elems = <<>> THEN <<>>
    ELSE IF Len(elems) = 1 THEN Head(elems)
    ELSE Head(elems) \o <<"/">> \o JoinElements(Tail(elems))

\* filepath.Clean
Clean(path) ==
    IF path = <<>> THEN Dot
    ELSE LET rooted == path[1] = "/"
             out == JoinElements(CleanElements(Elements(path), rooted, <<>>))
         IN  IF rooted THEN <<"/">> \o out
             ELSE IF out = <<>> THEN Dot ELSE out

\* filepath.Abs: an absolute path is cleaned; a relative one is joined to the
\* working directory, which fails when os.Getwd fails.
Abs(path, wd) ==
    IF path # <<>> /\ path[1] = "/" THEN [ok |-> TRUE, path |-> Clean(path)]
    ELSE IF wd = CwdErr THEN [ok |-> FALSE, path |-> <<>>]
    ELSE [ok |-> TRUE, path |-> Clean(wd \o <<"/">> \o path)]

\* What is at the clean absolute path p.
KindOf(p, f) ==
    IF p = <<"/">> THEN "dir"
    ELSE IF p \in FsNodes THEN f[p] ELSE "none"

\* The proper ancestors of the clean absolute path p, the root excluded.
Ancestors(p) ==
    {SubSeq(p, 1, i - 1) : i \in {k \in 2..Len(p) : p[k] = "/"}}

\* os.Stat(filepath.Join(absPath, ".git")): "ok", or the errno of the failure.
StatGit(absPath, f) ==
    LET walk == Ancestors(absPath) \cup {absPath}
    IN  IF \E q \in walk : KindOf(q, f) = "none" /\
              \A a \in Ancestors(q) : KindOf(a, f) \in {"dir", "repo"}
        THEN "ENOENT"
        ELSE IF \E q \in walk : KindOf(q, f) = "file" /\
              \A a \in Ancestors(q) : KindOf(a, f) \in {"dir", "repo"}
        THEN "ENOTDIR"
        ELSE IF \E q \in walk : KindOf(q, f) = "noperm" /\
              \A a \in Ancestors(q) : KindOf(a, f) \in {"dir", "repo"}
        THEN "EACCES"
        ELSE IF KindOf(absPath, f) = "repo" THEN "ok"
        ELSE "ENOENT"

\* os.IsNotExist
IsNotExist(errno) == errno = "ENOENT"

NoStat == "not called"

ErrNone == "nil"
ErrNoRepo == "no repository specified and no defaults configured"
ErrInvalid == "invalid path"
ErrDenied == "access denied - path outside allowed repositories"
ErrNotGit == "not a git repository"

\* The (path, error) pair validateRepoPath returns, with the resolved path
\* and the outcome of os.Stat when the call got that far.
Result(path, err, absPath, st) ==
    [path |-> path, err |-> err, abs |-> absPath, stat |-> st]

\* EmptyRequest taking the last configured repository as the default.
EmptyRequestLast(allowed) ==
    IF Len(allowed) > 0
    THEN Result(allowed[Len(allowed)], ErrNone, <<>>, NoStat)
    ELSE Result(<<>>, ErrNoRepo, <<>>, NoStat)

\* EmptyRequest returning the empty path without an error when nothing is
\* configured.
EmptyRequestNoError(allowed) ==
    IF Len(allowed) > 0
    THEN Result(allowed[1], ErrNone, <<>>, NoStat)
    ELSE Result(<<>>, ErrNone, <<>>, NoStat)

\* requestedPath == "": the first configured repository, or an error.
EmptyRequest(allowed) ==
    IF Len(allowed) > 0
    THEN Result(allowed[1], ErrNone, <<>>, NoStat)
    ELSE Result(<<>>, ErrNoRepo, <<>>, NoStat)

\* IsAllowed comparing for equality instead of by prefix.
IsAllowedExact(absPath, allowed) ==
    \E i \in 1..Len(allowed) : absPath = allowed[i]

\* The loop setting isAllowed: some allowed path is a prefix of absPath.
IsAllowed(absPath, allowed) ==
    \E i \in 1..Len(allowed) : HasPrefix(absPath, allowed[i])

\* AccessDenied without the test for an empty allowed list.
AccessDeniedAlways(isAllowed, allowed) == ~isAllowed

\* !isAllowed && len(allowedPaths) > 0
AccessDenied(isAllowed, allowed) == ~isAllowed /\ Len(allowed) > 0

\* validateRepoPath applying the containment check to the path as requested.
validateRepoPathUncleaned(requestedPath, allowed, wd, f) ==
    IF requestedPath = <<>> THEN EmptyRequest(allowed)
    ELSE LET a == Abs(requestedPath, wd)
         IN  IF ~a.ok THEN Result(<<>>, ErrInvalid, <<>>, NoStat)
             ELSE IF AccessDenied(IsAllowed(requestedPath, allowed), allowed)
                  THEN Result(<<>>, ErrDenied, a.path, NoStat)
                  ELSE LET st == StatGit(a.path, f)
                       IN  IF IsNotExist(st)
                           THEN Result(<<>>, ErrNotGit, a.path, st)
                           ELSE Result(a.path, ErrNone, a.path, st)

\* validateRepoPath(requestedPath, allowedPaths), run with working directory
\* wd on filesystem f.
validateRepoPath(requestedPath, allowed, wd, f) ==
    IF requestedPath = <<>> THEN EmptyRequest(allowed)
    ELSE LET a == Abs(requestedPath, wd)
         IN  IF ~a.ok THEN Result(<<>>, ErrInvalid, <<>>, NoStat)
             ELSE IF AccessDenied(IsAllowed(a.path, allowed), allowed)
                  THEN Result(<<>>, ErrDenied, a.path, NoStat)
                  ELSE LET st == StatGit(a.path, f)
                       IN  IF IsNotExist(st)
                           THEN Result(<<>>, ErrNotGit, a.path, st)
                           ELSE Result(a.path, ErrNone, a.path, st)

-----------------------------------------------------------------------------
(* Path validator: state and operations *)

NoCall == [requested |-> <<>>, done |-> FALSE]
NoRecall == [removed |-> <<>>, done |-> FALSE]

PathInit ==
    /\ fs = [n \in FsNodes |-> "none"]
    /\ cwd \in Cwds
    /\ allowedPaths \in AllowedLists
    /\ call = NoCall
    /\ recall = NoRecall

\* One call validateRepoPath(requested, GetRepoPaths()).
Validate ==
    /\ ~call.done
    /\ \E requested \in Paths :
          call' = [requested |-> requested, done |-> TRUE,
                   ret |-> validateRepoPath(requested, allowedPaths, cwd, fs)]
    /\ UNCHANGED <<fs, cwd, allowedPaths, recall>>
    /\ UNCHANGED <<filterVars, req, raceVars, transVars>>

\* The caller has consumed the result.
Return ==
    /\ call.done
    /\ call' = NoCall
    /\ recall' = NoRecall
    /\ UNCHANGED <<fs, cwd, allowedPaths>>
    /\ UNCHANGED <<filterVars, req, raceVars, transVars>>

\* The filesystem changes between calls: some node changes its kind.
FsSet ==
    /\ ~call.done
    /\ \E n \in FsNodes :
          \E k \in Kinds \ {fs[n]} : fs' = [fs EXCEPT ![n] = k]
    /\ UNCHANGED <<cwd, allowedPaths, call, recall>>
    /\ UNCHANGED <<filterVars, req, raceVars, transVars>>

\* Between two calls the .git entry of a repository is removed: the node
\* stays a directory.
GitEntryRemoved ==
    /\ call.done /\ recall = NoRecall
    /\ \E n \in FsNodes :
          /\ fs[n] = "repo"
          /\ fs' = [fs EXCEPT ![n] = "dir"]
          /\ recall' = [removed |-> n, done |-> FALSE]
    /\ UNCHANGED <<cwd, allowedPaths, call>>
    /\ UNCHANGED <<filterVars, req, raceVars, transVars>>

\* A second call validateRepoPath(requested, GetRepoPaths()) with the requested
\* path of the first.
ValidateAgain ==
    /\ call.done /\ recall # NoRecall /\ ~recall.done
    /\ recall' = [removed |-> recall.removed, done |-> TRUE,
                  ret |-> validateRepoPath(call.requested, allowedPaths, cwd, fs)]
    /\ UNCHANGED <<fs, cwd, allowedPaths, call>>
    /\ UNCHANGED <<filterVars, req, raceVars, transVars>>

-----------------------------------------------------------------------------
(* Tool handlers *)

\* The handlers that start by validating repo_path, with the GitOperations
\* method each one calls.
OpOf(tool) ==
    CASE tool = "git_status" -> "GetStatus"
      [] tool = "git_diff_unstaged" -> "GetDiffUnstaged"
      [] tool = "git_diff_staged" -> "GetDiffStaged"
      [] tool = "git_diff" -> "GetDiff"
      [] tool = "git_commit" -> "CommitChanges"
      [] tool = "git_add" -> "AddFiles"
      [] tool = "git_reset" -> "ResetStaged"
      [] tool = "git_log" -> "GetLog"
      [] tool = "git_create_branch" -> "CreateBranch"
      [] tool = "git_checkout" -> "CheckoutBranch"
      [] tool = "git_show" -> "ShowCommit"
      [] tool = "git_push" -> "PushChanges"
      [] tool = "git_pull" -> "PullChanges"
      [] tool = "git_apply_patch_string" -> "ApplyPatchFromString"
      [] tool = "git_apply_patch_file" -> "ApplyPatchFromFile"

ValidatingTools ==
    {"git_status", "git_diff_unstaged", "git_diff_staged", "git_diff",
     "git_commit", "git_add", "git_reset", "git_log", "git_create_branch",
     "git_checkout", "git_show", "git_push", "git_pull",
     "git_apply_patch_string", "git_apply_patch_file"}

\* What a handler can find when it reads its own arguments after the
\* validation: "ok", or the check that rejects the request.
ArgStates(tool, wd) ==
    CASE tool \in {"git_diff", "git_commit", "git_add", "git_create_branch",
                   "git_checkout", "git_show"} ->
            {"ok", "not a string"}
      [] tool = "git_apply_patch_string" ->
            {"ok", "not a string", "empty"}
      [] tool = "git_apply_patch_file" ->
            {"ok", "not a string", "empty", "does not exist"}
                \cup (IF wd = CwdErr THEN {"invalid path"} ELSE {})
      [] OTHER -> {"ok"}

\* args["repo_path"] is not a string (absent, or of another type).
NotAString == <<"not a string">>

ToolPaths == SeqsUpTo(PathChar, MaxToolPathLen)

RepoPathArgs == ToolPaths \cup {NotAString}

NotValidated == [err |-> "validateRepoPath not called"]

NoReq == [tool |-> "none", done |-> FALSE]

\* The result a handler returns: utils.NewToolResultError or
\* utils.NewToolResultText, always with a nil Go error.
ToolResult(tool, v, ops, isError) ==
    [tool |-> tool, done |-> TRUE, validation |-> v, ops |-> ops,
     isError |-> isError, goErr |-> "nil"]

\* GitOperations.InitRepo can succeed where a repository can be created: at a
\* node that is absent, a directory or a repository, below directories.
CanInit(absPath, f) ==
    /\ absPath \in FsNodes
    /\ f[absPath] \in {"none", "dir", "repo"}
    /\ \A a \in Ancestors(absPath) : KindOf(a, f) \in {"dir", "repo"}

\* A handler that runs the GitOperations call before looking at the outcome of
\* validateRepoPath.
HandleOperationFirst(tool, parseOk, v, argState, opOk) ==
    IF ~parseOk THEN ToolResult(tool, NotValidated, <<>>, TRUE)
    ELSE IF argState # "ok" THEN ToolResult(tool, v, <<>>, TRUE)
    ELSE ToolResult(tool, v, <<[op |-> OpOf(tool), path |-> v.path]>>,
                    v.err # ErrNone \/ ~opOk)

\* The body shared by the handlers of ValidatingTools: unmarshal the arguments,
\* validate the repository path, check the tool's own arguments, call the
\* GitOperations method.  Every return is (result, nil).
Handle(tool, parseOk, v, argState, opOk) ==
    IF ~parseOk THEN ToolResult(tool, NotValidated, <<>>, TRUE)
    ELSE IF v.err # ErrNone THEN ToolResult(tool, v, <<>>, TRUE)
    ELSE IF argState # "ok" THEN ToolResult(tool, v, <<>>, TRUE)
    ELSE ToolResult(tool, v, <<[op |-> OpOf(tool), path |-> v.path]>>, ~opOk)

\* One of the handlers of ValidatingTools serves a request.
GitTool ==
    /\ ~req.done
    /\ \E tool \in ValidatingTools, parseOk \in BOOLEAN,
          repoArg \in RepoPathArgs, opOk \in BOOLEAN :
          \E argState \in ArgStates(tool, cwd) :
             LET requestedPath == IF repoArg = NotAString THEN <<>> ELSE repoArg
                 v == validateRepoPath(requestedPath, allowedPaths, cwd, fs)
             IN  req' = Handle(tool, parseOk, v, argState, opOk)
    /\ UNCHANGED <<fs, cwd, allowedPaths, call>>
    /\ UNCHANGED <<filterVars, recall, raceVars, transVars>>

\* The git_init handler serves a request.
GitInit ==
    /\ ~req.done
    /\ \E parseOk \in BOOLEAN, repoArg \in RepoPathArgs, opOk \in BOOLEAN :
          LET a == Abs(repoArg, cwd)
          IN  IF ~parseOk \/ repoArg = NotAString \/ repoArg = <<>> \/ ~a.ok
              THEN /\ req' = ToolResult("git_init", NotValidated, <<>>, TRUE)
                   /\ fs' = fs
              ELSE /\ req' = ToolResult("git_init", NotValidated,
                               <<[op |-> "InitRepo", path |-> a.path]>>,
                               ~(opOk /\ CanInit(a.path, fs)))
                   /\ fs' = IF opOk /\ CanInit(a.path, fs)
                            THEN [fs EXCEPT ![a.path] = "repo"]
                            ELSE fs
    /\ UNCHANGED <<cwd, allowedPaths, call>>
    /\ UNCHANGED <<filterVars, recall, raceVars, transVars>>

\* The git_list_repositories handler serves a request.
GitListRepositories ==
    /\ ~req.done
    /\ req' = ToolResult("git_list_repositories", NotValidated, <<>>, FALSE)
    /\ UNCHANGED <<fs, cwd, allowedPaths, call>>
    /\ UNCHANGED <<filterVars, recall, raceVars, transVars>>

\* The result has gone back to the client; the handler serves the next request.
ToolReturn ==
    /\ req.done
    /\ req' = NoReq
    /\ UNCHANGED <<fs, cwd, allowedPaths, call>>
    /\ UNCHANGED <<filterVars, recall, raceVars, transVars>>

-----------------------------------------------------------------------------
(* Translations: the configuration file, the lookup function, the dump *)

\* Keys as callers write them, and strings.ToUpper on them.
TransKey == {"a", "A", "b"}

ToUpper(key) ==
    CASE key = "a" -> "A"
      [] key = "b" -> "B"
      [] OTHER -> key

UpperKeys == {ToUpper(key) : key \in TransKey}

NoValue == "<absent>"
EnvValues == {"env1", "env2"}
DefaultValues == {"d1", "d2"}
FileValue == "cfg"

NoEntries == [K \in UpperKeys |-> NoValue]

\* The filter_patterns field of the file: absent, a list of strings, or a
\* single string.
AbsentField == [kind |-> "absent", items |-> <<>>]
ListField(items) == [kind |-> "list", items |-> items]
StringField == [kind |-> "string", items |-> <<LetterPattern>>]

FilterFields ==
    { AbsentField, ListField(<<>>), ListField(<<LetterPattern>>),
      ListField(<<CoAuthorPattern, BadPattern, FooterPattern>>), StringField }

\* The file: missing, not valid JSON, or an object with an optional
\* filter_patterns field and an optional value for each key.
MissingFile == [state |-> "missing", patterns |-> AbsentField, keys |-> NoEntries]
MalformedFile == [state |-> "malformed", patterns |-> AbsentField, keys |-> NoEntries]

ConfigFiles ==
    {MissingFile, MalformedFile} \cup
    { [state |-> "ok", patterns |-> f, keys |-> k] :
        f \in FilterFields, k \in [UpperKeys -> {NoValue, FileValue}] }

\* v.ReadInConfig(): the settings viper holds afterwards and the error.
ReadInConfig(file) ==
    IF file.state = "ok"
    THEN [err |-> "nil", patterns |-> file.patterns, keys |-> file.keys]
    ELSE [err |-> file.state, patterns |-> AbsentField, keys |-> NoEntries]

\* v.IsSet("filter_patterns")
IsSet(v) == v.patterns.kind # "absent"

\* v.GetStringSlice("filter_patterns"): a list as it is, a single string as
\* its one field.
GetStringSlice(v) == v.patterns.items

\* v.SetDefault(key, defaultValue); v.GetString(key): the file's value for the
\* key when it has one, the default otherwise.
GetString(v, K, defaultValue) ==
    IF v.keys[K] # NoValue THEN v.keys[K] ELSE defaultValue

\* A TranslationHelper that installs whatever list the field holds.
LoadsPatternsWhenSet(v) == IsSet(v)

\* TranslationHelper calls SetFilterPatterns: the field is set and holds at
\* least one pattern.
LoadsPatterns(v) == IsSet(v) /\ Len(GetStringSlice(v)) > 0

\* A lookup function that does not consult translationKeyMap.
LookupUncached(keyMap, e, v, K, defaultValue) ==
    IF e[K] # NoValue THEN e[K] ELSE GetString(v, K, defaultValue)

\* The value the lookup function returns for the upper-cased key K: the cached
\* value, else the environment variable, else what viper gives.
LookupValue(keyMap, e, v, K, defaultValue) ==
    IF keyMap[K] # NoValue THEN keyMap[K]
    ELSE IF e[K] # NoValue THEN e[K]
    ELSE GetString(v, K, defaultValue)

\* A dump that writes the translation map only.
DumpOutputWithoutPatterns(file, keyMap) ==
    [state |-> "ok", patterns |-> AbsentField, keys |-> keyMap]

\* The JSON object DumpTranslationKeyMap marshals: every entry of the map, and
\* filter_patterns when the existing file could be read and its list is not
\* empty.
DumpOutput(file, keyMap) ==
    LET v == ReadInConfig(file)
        existingFilterPatterns ==
            IF v.err = "nil" /\ IsSet(v) THEN GetStringSlice(v) ELSE <<>>
    IN  [state |-> "ok",
         patterns |-> IF Len(existingFilterPatterns) > 0
                      THEN ListField(existingFilterPatterns)
                      ELSE AbsentField,
         keys |-> keyMap]

NoHelper == [created |-> FALSE]
NoLookup == [done |-> FALSE]
NoDump == [done |-> FALSE]

TransInit ==
    /\ config \in ConfigFiles
    /\ env = NoEntries
    /\ helper = NoHelper
    /\ translationKeyMap = NoEntries
    /\ firstAnswer = NoEntries
    /\ lookup = NoLookup
    /\ dump = NoDump

\* main calls TranslationHelper() once, at start-up.
TranslationHelper ==
    /\ ~helper.created
    /\ LET v == ReadInConfig(config)
       IN  /\ helper' = [created |-> TRUE, v |-> v, loaded |-> LoadsPatterns(v)]
           /\ filterPatterns' = IF LoadsPatterns(v)
                                THEN Installed(filterPatterns, GetStringSlice(v))
                                ELSE filterPatterns
           /\ lastPatterns' = IF LoadsPatterns(v) THEN GetStringSlice(v)
                              ELSE lastPatterns
    /\ translationKeyMap' = NoEntries
    /\ firstAnswer' = NoEntries
    /\ UNCHANGED <<body, firstPass, secondPass, fpc, noted>>
    /\ UNCHANGED <<config, env, lookup, dump>>
    /\ UNCHANGED <<pathVars, req, raceVars>>

\* A caller runs the lookup function on (key, defaultValue).
Lookup ==
    /\ helper.created /\ ~lookup.done /\ ~dump.done
    /\ \E key \in TransKey, defaultValue \in DefaultValues :
          LET K == ToUpper(key)
              value == LookupValue(translationKeyMap, env, helper.v, K, defaultValue)
          IN  /\ translationKeyMap' = [translationKeyMap EXCEPT ![K] = value]
              /\ lookup' = [done |-> TRUE, key |-> key,
                            defaultValue |-> defaultValue, value |-> value,
                            first |-> firstAnswer[K] = NoValue,
                            envThen |-> env[K]]
              /\ firstAnswer' = IF firstAnswer[K] = NoValue
                                THEN [firstAnswer EXCEPT ![K] = value]
                                ELSE firstAnswer
    /\ UNCHANGED <<config, env, helper, dump>>
    /\ UNCHANGED <<filterVars, pathVars, req, raceVars>>

\* The caller has consumed the value.
LookupReturn ==
    /\ lookup.done
    /\ lookup' = NoLookup
    /\ UNCHANGED <<config, env, helper, translationKeyMap, firstAnswer, dump>>
    /\ UNCHANGED <<filterVars, pathVars, req, raceVars>>

\* The environment changes between lookups: a variable is set, changed or unset.
SetEnv ==
    /\ helper.created /\ ~lookup.done /\ ~dump.done
    /\ \E K \in UpperKeys :
          \E value \in (EnvValues \cup {NoValue}) \ {env[K]} :
             env' = [env EXCEPT ![K] = value]
    /\ UNCHANGED <<config, helper, translationKeyMap, firstAnswer, lookup, dump>>
    /\ UNCHANGED <<filterVars, pathVars, req, raceVars>>

\* The dump function runs DumpTranslationKeyMap(translationKeyMap) when the
\* process ends.  os.Create can fail, leaving the file as it was; file.Write can
\* fail after os.Create has truncated the file.
DumpTranslationKeyMap ==
    /\ helper.created /\ ~lookup.done /\ ~dump.done
    /\ \E createOk \in BOOLEAN, writeOk \in BOOLEAN :
          /\ config' = IF ~createOk THEN config
                       ELSE IF ~writeOk THEN MalformedFile
                       ELSE DumpOutput(config, translationKeyMap)
          /\ dump' = [done |-> TRUE, before |-> config,
                      err |-> IF ~createOk THEN "error creating file"
                              ELSE IF ~writeOk THEN "error writing to file"
                              ELSE "nil"]
    /\ UNCHANGED <<env, helper, translationKeyMap, firstAnswer, lookup>>
    /\ UNCHANGED <<filterVars, pathVars, req, raceVars>>

-----------------------------------------------------------------------------
(* Specifications *)

FilterSpecInit ==
    /\ FilterInit
    /\ PathInit
    /\ cwd = RootR
    /\ allowedPaths = <<>>
    /\ req = NoReq
    /\ TransInit
    /\ config = MissingFile

FilterNext ==
    \/ FilterBody
    \/ FilterBodyAgain
    \/ FilterDone

\* The filter engine alone.
SpecFilter == FilterSpecInit /\ [][FilterNext]_vars

RulesNext ==
    \/ SetFilterPatterns
    \/ FilterBody
    \/ FilterDone

\* The filter engine under the rule sets a caller configures.
SpecRules == FilterSpecInit /\ [][RulesNext]_vars

ConfigNext ==
    \/ SetFilterPatterns
    \/ Observe

\* Configuration of the rule set alone.
SpecConfig == FilterSpecInit /\ [][ConfigNext]_vars

RepeatNext ==
    \/ FilterBody
    \/ FilterBodySame
    \/ FilterDone

\* The same text filtered twice.
SpecRepeat == FilterSpecInit /\ [][RepeatNext]_vars

RaceNext ==
    \/ SetFilterPatternsMake
    \/ SetFilterPatternsIterate
    \/ SetFilterPatternsReturn
    \/ FilterBodyRacing
    \/ FilterDone

\* A SetFilterPatterns call and a FilterBody call in two goroutines.
SpecRace == FilterSpecInit /\ [][RaceNext]_vars

PathSpecInit ==
    /\ FilterInit
    /\ PathInit
    /\ req = NoReq
    /\ TransInit
    /\ config = MissingFile

PathNext ==
    \/ Validate
    \/ Return
    \/ FsSet

\* The path validator alone.
SpecPath == PathSpecInit /\ [][PathNext]_vars

\* The filesystems a server is started on: nothing there; /r and /rr
\* repositories with a plain directory /r/r; /r a regular file.
ToolFilesystems ==
    {[n \in FsNodes |-> "none"],
     [n \in FsNodes |-> IF n = SubR THEN "dir" ELSE "repo"],
     [n \in FsNodes |-> IF n = RootR THEN "file" ELSE "none"]}

ToolSpecInit ==
    /\ FilterInit
    /\ fs \in ToolFilesystems
    /\ cwd \in Cwds
    /\ allowedPaths \in AllowedLists
    /\ call = NoCall
    /\ recall = NoRecall
    /\ req = NoReq
    /\ TransInit
    /\ config = MissingFile

ToolNext ==
    \/ GitTool
    \/ GitInit
    \/ GitListRepositories
    \/ ToolReturn

\* The tool handlers serving requests one after the other.
SpecTools == ToolSpecInit /\ [][ToolNext]_vars

RevalidateInit ==
    /\ FilterInit
    /\ fs \in ToolFilesystems
    /\ cwd \in Cwds
    /\ allowedPaths \in AllowedLists
    /\ call = NoCall
    /\ recall = NoRecall
    /\ req = NoReq
    /\ TransInit
    /\ config = MissingFile

RevalidateNext ==
    \/ Validate
    \/ GitEntryRemoved
    \/ ValidateAgain
    \/ Return

\* Two calls of the validator for one requested path, the filesystem changing
\* in between.
SpecRevalidate == RevalidateInit /\ [][RevalidateNext]_vars

TranslationsInit ==
    /\ FilterInit
    /\ PathInit
    /\ cwd = RootR
    /\ allowedPaths = <<>>
    /\ req = NoReq
    /\ TransInit

TranslationsNext ==
    \/ TranslationHelper
    \/ Lookup
    \/ LookupReturn
    \/ SetEnv
    \/ DumpTranslationKeyMap

\* Start-up from a configuration file, lookups, and the dump at exit.
SpecTranslations == TranslationsInit /\ [][TranslationsNext]_vars

-----------------------------------------------------------------------------
(* Properties of the filter engine, checked under SpecFilter *)

\* C1: FilterBody is idempotent under the default rules: filtering the result
\* of a FilterBody call again returns that result unchanged.
FilterBodyIdempotent ==
    fpc = "second" => secondPass = firstPass

\* C2: under the default rules the result of FilterBody holds no line that
\* the co-author rule matches and no span that the footer rule matches.
ResultHasNoTrailer ==
    fpc # "idle" =>
        /\ ~Matches(CoAuthorPattern, firstPass)
        /\ ~Matches(FooterPattern, firstPass)

-----------------------------------------------------------------------------
(* Properties of the path validator, checked under SpecPath *)

\* The directory at the clean absolute path p holds a .git entry.
HasGitEntry(p, f) ==
    /\ KindOf(p, f) = "repo"
    /\ \A a \in Ancestors(p) : KindOf(a, f) \in {"dir", "repo", "noperm"}

\* p is an initial segment of the string s.
IsStringPrefix(p, s) == \E k \in 0..Len(s) : p = [i \in 1..k |-> s[i]]

Succeeded == call.done /\ call.ret.err = ErrNone

\* C3: every path validateRepoPath returns successfully, the default of an
\* empty request included, holds a .git entry when it is returned.
ReturnedPathHasGit ==
    Succeeded => HasGitEntry(call.ret.path, fs)

FailsClosed ==
    (call.done /\ call.ret.stat \in {"ENOTDIR", "EACCES"}) =>
        call.ret.err # ErrNone

EmptyRequestNoDefaultFails ==
    (call.done /\ call.requested = <<>> /\ allowedPaths = <<>>) =>
        /\ call.ret.err = ErrNoRepo
        /\ call.ret.path = <<>>

\* C8 witness: such a call has been made.
EmptyRequestNoDefault ==
    /\ call.done
    /\ call.requested = <<>>
    /\ allowedPaths = <<>>
    /\ call.ret.err = ErrNoRepo

\* The request resolved and passed the containment step.
PassedContainment ==
    /\ call.done
    /\ call.requested # <<>>
    /\ Abs(call.requested, cwd).ok
    /\ \/ allowedPaths = <<>>
       \/ \E i \in 1..Len(allowedPaths) :
              IsStringPrefix(allowedPaths[i], Abs(call.requested, cwd).path)

\* C9: a non-empty request that passes the containment step fails with
\* "not a git repository" whenever the resolved path holds no .git entry.
NoGitEntryRejected ==
    (PassedContainment /\ ~HasGitEntry(Abs(call.requested, cwd).path, fs)) =>
        call.ret.err = ErrNotGit

-----------------------------------------------------------------------------
(* Properties of the tool handlers, checked under SpecTools *)

\* C4: every GitOperations method a handler invokes runs on the path that
\* validateRepoPath returned successfully earlier in the same request.
OpsOnlyOnValidatedPath ==
    req.done =>
        \A i \in 1..Len(req.ops) :
            /\ req.validation # NotValidated
            /\ req.validation.err = ErrNone
            /\ req.ops[i].path = req.validation.path

\* C11: in a handler that calls validateRepoPath, a request whose validation
\* fails gets an error tool result with a nil Go error, no GitOperations method is
\* invoked for it, and the handler can return and serve the next request.
ValidationFailureStopsRequest ==
    (req.done /\ req.tool \in ValidatingTools
        /\ req.validation # NotValidated /\ req.validation.err # ErrNone)
    => /\ req.isError
       /\ req.goErr = "nil"
       /\ req.ops = <<>>
       /\ ENABLED ToolReturn

\* A request outside the allowed repositories was refused by a handler.
DeniedRequestRefused ==
    /\ req.done /\ req.tool \in ValidatingTools
    /\ req.validation # NotValidated
    /\ req.validation.err = ErrDenied
    /\ req.isError /\ req.ops = <<>>

\* A run of three or more consecutive newlines somewhere in s.
HasLongNewlineRun(s) ==
    \E i \in 1..(Len(s) - 2) : s[i] = "NL" /\ s[i + 1] = "NL" /\ s[i + 2] = "NL"

\* C12: FilterBody("") returns "" under every configured rule set.
EmptyInputEmptyResult ==
    (fpc = "first" /\ body = <<>>) => firstPass = <<>>

\* FilterBody("") has returned under a rule set that is not the default one.
EmptyInputUnderCustomRules ==
    /\ fpc = "first" /\ body = <<>> /\ firstPass = <<>>
    /\ filterPatterns = <<LetterPattern, CoAuthorPattern>>

\* C13: for a non-empty input, under every configured rule set, the result has
\* no run of three or more consecutive newlines.
NoLongNewlineRunInResult ==
    (fpc = "first" /\ body # <<>>) => ~HasLongNewlineRun(firstPass)

\* The input had no long run, removing co-author lines under a custom rule set
\* made one, and the result kept two newlines in its place.
RunMadeByRemovalCollapsed ==
    /\ fpc = "first"
    /\ filterPatterns = <<CoAuthorPattern>>
    /\ ~HasLongNewlineRun(body)
    /\ HasLongNewlineRun(ReplaceAllString(CoAuthorPattern, body))
    /\ \E i \in 2..(Len(firstPass) - 2) :
          /\ ~IsSpace(firstPass[i - 1])
          /\ firstPass[i] = "NL" /\ firstPass[i + 1] = "NL"
          /\ ~IsSpace(firstPass[i + 2])
    /\ Len(body) > Len(firstPass)

\* C14: under every configured rule set the result neither begins nor ends with
\* whitespace, and an input of whitespace only gives "".
ResultIsTrimmed ==
    fpc = "first" =>
      /\ firstPass # <<>> =>
            (~IsSpace(firstPass[1]) /\ ~IsSpace(firstPass[Len(firstPass)]))
      /\ (\A i \in 1..Len(body) : body[i] \in {"NL", "SP"}) => firstPass = <<>>

\* An input with whitespace at both ends came back without it, and an input of
\* whitespace only is among the inputs.
EdgeWhitespaceRemoved ==
    /\ fpc = "first"
    /\ Len(body) >= 3
    /\ IsSpace(body[1]) /\ IsSpace(body[Len(body)])
    /\ firstPass = SubSeq(body, 2, Len(body) - 1)
    /\ <<"SP", "NL", "SP">> \in Inputs

\* a can be obtained from b by deleting tokens.
RECURSIVE IsSubsequence(_, _)
IsSubsequence(a, b) ==
    IF a = <<>> THEN TRUE
    ELSE IF b = <<>> THEN FALSE
    ELSE IF Head(a) = Head(b) THEN IsSubsequence(Tail(a), Tail(b))
    ELSE IsSubsequence(a, Tail(b))

\* No rule of the active set matches anywhere in s.
NoRuleMatches(s) ==
    \A k \in 1..Len(filterPatterns) : ~Matches(filterPatterns[k], s)

\* s has no whitespace at either end.
NoEdgeWhitespace(s) ==
    s = <<>> \/ (~IsSpace(s[1]) /\ ~IsSpace(s[Len(s)]))

RECURSIVE SplitLines(_)
SplitLines(s) ==
    LET e == LineEnd(s, 1)
    IN  IF e > Len(s) THEN <<s>>
        ELSE <<SubSeq(s, 1, e - 1)>> \o SplitLines(SubSeq(s, e + 1, Len(s)))

\* s with every line that begins with Co-Authored-By: emptied (its newline
\* stays) and every other line as it was.
WithoutCoAuthorLines(s) ==
    LET ls == SplitLines(s)
    IN  JoinLines([k \in 1..Len(ls) |->
                     IF ls[k] # <<>> /\ ls[k][1] = "CA" THEN <<>> ELSE ls[k]])

\* C16: the co-author rule removes exactly the lines that begin at column 0 with
\* Co-Authored-By:; a line that mentions it later, a lower-case trailer and other
\* trailers stay as they were.  Alone or followed by the footer rule, the result
\* is what the newline collapse and the trim leave of the text with those
\* lines emptied.
CoAuthorLinesRemovedExactly ==
    /\ (fpc = "first" /\ filterPatterns = <<CoAuthorPattern>>)
          => firstPass = TrimSpace(CollapseNewlines(WithoutCoAuthorLines(body)))
    /\ (fpc = "first" /\ filterPatterns = defaultFilterPatterns)
          => firstPass = TrimSpace(CollapseNewlines(
                 ReplaceAllString(FooterPattern, WithoutCoAuthorLines(body))))

\* A co-author line was removed while a Signed-off-by line and a lower-case
\* co-authored-by line next to it were kept.
OtherTrailersKept ==
    /\ fpc = "first"
    /\ filterPatterns = defaultFilterPatterns
    /\ body = <<"sob", "w", "NL", "CA", "w", "NL", "ca", "w">>
    /\ firstPass = <<"sob", "w", "NL", "NL", "ca", "w">>

\* The attribution phrase, a space and at least one more character on the line
\* stand at position j of s.
AttributionAt(s, j) ==
    j + 2 <= Len(s) /\ s[j] = "PR" /\ s[j + 1] = "SP" /\ s[j + 2] # "NL"

\* What follows the last attribution line of s, from its line break on; the
\* whole of s when it has no attribution line.
AfterLastAttribution(s) ==
    LET js == {j \in 1..Len(s) : AttributionAt(s, j)}
    IN  IF js = {} THEN s
        ELSE LET last == CHOOSE j \in js : \A k \in js : k <= j
             IN  SubSeq(s, LineEnd(s, last), Len(s))

\* What precedes the first --- marker of s; the whole of s when it has none.
BeforeFirstMarker(s) ==
    LET hs == {h \in 1..Len(s) : s[h] = "HR"}
    IN  IF hs = {} THEN s
        ELSE SubSeq(s, 1, (CHOOSE h \in hs : \A k \in hs : h <= k) - 1)

IsPrefixOf(a, b) == Len(a) <= Len(b) /\ SubSeq(b, 1, Len(a)) = a

IsSuffixOf(a, b) ==
    Len(a) <= Len(b) /\ SubSeq(b, Len(b) - Len(a) + 1, Len(b)) = a

\* s is a --- marker, whitespace, and one attribution line, then lines without a
\* marker.
StartsWithFooter(s) ==
    /\ s # <<>> /\ s[1] = "HR"
    /\ AttributionAt(s, SkipSpace(s, 2))
    /\ \A k \in LineEnd(s, SkipSpace(s, 2))..Len(s) : s[k] # "HR"

\* C17: under the footer rule, what stands before the first --- marker and what
\* stands on the lines after the last attribution line is kept (up to the newline
\* collapse and the trim); a marker followed by whitespace, line breaks included,
\* and an attribution line is removed up to the end of that line and no further.
FooterSpanEndsWithLine ==
    (fpc = "first" /\ filterPatterns = <<FooterPattern>>) =>
      /\ IsSuffixOf(TrimSpace(CollapseNewlines(AfterLastAttribution(body))),
                    firstPass)
      /\ IsPrefixOf(TrimSpace(CollapseNewlines(BeforeFirstMarker(body))),
                    firstPass)
      /\ StartsWithFooter(body) =>
            firstPass = TrimSpace(CollapseNewlines(
                SubSeq(body, LineEnd(body, SkipSpace(body, 2)), Len(body))))

\* A footer whose marker and attribution phrase are on different lines was
\* removed and the line after it was kept.
FooterAcrossLineBreakRemoved ==
    /\ fpc = "first"
    /\ filterPatterns = <<FooterPattern>>
    /\ body = <<"HR", "NL", "PR", "SP", "w", "NL", "w">>
    /\ firstPass = <<"w">>

\* The positions of s inside the matches ReplaceAllString(re, s) removes, from
\* position i on.
RECURSIVE CoveredFrom(_, _, _)
CoveredFrom(re, s, i) ==
    IF i > Len(s) THEN {}
    ELSE LET e == MatchAt(re, s, i)
         IN  IF e # 0 THEN (i..(e - 1)) \cup CoveredFrom(re, s, e)
             ELSE CoveredFrom(re, s, i + 1)

\* The number of matches ReplaceAllString(re, s) removes, from position i on.
RECURSIVE CountFrom(_, _, _)
CountFrom(re, s, i) ==
    IF i > Len(s) THEN 0
    ELSE LET e == MatchAt(re, s, i)
         IN  IF e # 0 THEN 1 + CountFrom(re, s, e) ELSE CountFrom(re, s, i + 1)

\* Both default rules match in s, and no position of s is inside a match of each.
DefaultRulesMatchDisjoint(s) ==
    /\ CoveredFrom(CoAuthorPattern, s, 1) # {}
    /\ CoveredFrom(FooterPattern, s, 1) # {}
    /\ CoveredFrom(CoAuthorPattern, s, 1) \cap CoveredFrom(FooterPattern, s, 1) = {}

\* Removing the co-author lines of s leaves as many footer matches as s has.
NoFooterMadeByRemoval(s) ==
    CountFrom(FooterPattern, ReplaceAllString(CoAuthorPattern, s), 1)
      = CountFrom(FooterPattern, s, 1)

\* The active rule set is the two default rules, in either order.
DefaultRulesEitherOrder ==
    filterPatterns \in {defaultFilterPatterns, <<FooterPattern, CoAuthorPattern>>}

ActiveRulesAreCompilingSubsequence ==
    /\ filterPatterns = SelectSeq(lastPatterns, LAMBDA p : p # BadPattern)
    /\ fpc = "idle" => ENABLED SetFilterPatterns

\* A list with a non-compiling pattern in the middle was installed without it.
BadPatternSkipped ==
    /\ lastPatterns = <<CoAuthorPattern, BadPattern, FooterPattern>>
    /\ filterPatterns = <<CoAuthorPattern, FooterPattern>>

\* C20: the active rule set depends only on the argument of the last
\* SetFilterPatterns call: every active rule comes from that argument, none from
\* an earlier call or from the defaults, and whenever the same argument was
\* installed before, the rule set read then is the rule set read now.
RuleSetFromLastCallOnly ==
    /\ Len(filterPatterns) <= Len(lastPatterns)
    /\ \A i \in 1..Len(filterPatterns) :
          \E j \in 1..Len(lastPatterns) : filterPatterns[i] = lastPatterns[j]
    /\ noted.arg = lastPatterns => noted.rules = filterPatterns

\* A custom list replaced the defaults, and the rule set read now is the one
\* noted when the same list was installed before.
DefaultsReplacedByCustomList ==
    /\ lastPatterns = <<LetterPattern>>
    /\ filterPatterns = <<LetterPattern>>
    /\ noted = [arg |-> <<LetterPattern>>, rules |-> <<LetterPattern>>]

\* C23: the configured rules are applied in configured order, the second to the
\* text the first produced, and the newline collapse and the trim run once, on
\* the text the last rule produced.
RulesAppliedInSequence ==
    (fpc = "first" /\ body # <<>>) =>
      /\ Len(filterPatterns) <= 2
      /\ LET afterFirst == IF Len(filterPatterns) >= 1
                           THEN ReplaceAllString(filterPatterns[1], body)
                           ELSE body
             afterSecond == IF Len(filterPatterns) >= 2
                            THEN ReplaceAllString(filterPatterns[2], afterFirst)
                            ELSE afterFirst
         IN  firstPass = TrimSpace(CollapseNewlines(afterSecond))

\* The co-author rule, configured second, matched nothing in the input but
\* removed the line the first rule had left.
SecondRuleSawFirstRuleOutput ==
    /\ fpc = "first"
    /\ filterPatterns = <<LetterPattern, CoAuthorPattern>>
    /\ body = <<"w", "CA", "w">>
    /\ ~Matches(CoAuthorPattern, body)
    /\ firstPass = <<>>

-----------------------------------------------------------------------------
(* Containment and path traversal, checked under SpecPath *)

\* Some allowed entry is a string prefix of the path as it was requested.
RequestedUnderAllowed ==
    \E i \in 1..Len(allowedPaths) :
        IsStringPrefix(allowedPaths[i], call.requested)

-----------------------------------------------------------------------------
(* Properties of repeated filtering, checked under SpecRepeat *)

-----------------------------------------------------------------------------
(* Properties of repeated validation, checked under SpecRevalidate *)

\* C25: when a first call succeeded and the .git entry of the path it returned
\* is removed, a second call with the same requested path fails.
SecondCallFailsAfterRemoval ==
    (/\ recall.done
     /\ call.ret.err = ErrNone
     /\ call.ret.path = recall.removed)
    => recall.ret.err # ErrNone

-----------------------------------------------------------------------------
(* Properties of concurrent use of the filter engine, checked under SpecRace *)

\* C24: a FilterBody call that runs while a SetFilterPatterns call is in
\* progress reads either the complete rule set from before the call or the
\* complete rule set the call installs.
RacingCallSeesWholeRuleSet ==
    (fpc = "first" /\ setter.pc = "loop" /\ seen # NothingSeen)
    => seen \in {setter.before, SelectSeq(setter.patterns, Compiles)}

-----------------------------------------------------------------------------
(* Properties of start-up and translations, checked under SpecTranslations *)

\* The file is a JSON object whose filter_patterns field holds at least one
\* pattern.
FileHoldsPatterns(file) ==
    /\ file.state = "ok"
    /\ file.patterns.kind \in {"list", "string"}
    /\ file.patterns.items # <<>>

\* C21: after TranslationHelper, when the file has no filter_patterns field or
\* an empty one (or cannot be read), SetFilterPatterns was not called and the
\* two default rules are active; SetFilterPatterns was called exactly when the
\* field holds at least one pattern, with that list.
DefaultsKeptWithoutPatterns ==
    (helper.created /\ ~dump.done) =>
      IF FileHoldsPatterns(config)
      THEN helper.loaded /\ lastPatterns = config.patterns.items
      ELSE /\ ~helper.loaded
           /\ lastPatterns = defaultFilterPatterns
           /\ filterPatterns = <<CoAuthorPattern, FooterPattern>>

\* TranslationHelper has read a file whose filter_patterns list is empty and
\* the default rules are still active.
EmptyListKeepsDefaults ==
    /\ helper.created /\ ~dump.done
    /\ config.state = "ok" /\ config.patterns = ListField(<<>>)
    /\ filterPatterns = <<CoAuthorPattern, FooterPattern>>

\* C22: when the existing file holds a non-empty filter_patterns list, the file
\* DumpTranslationKeyMap writes holds the same list in the same order, and an
\* entry for every key of the translation map.
DumpPreservesFilterPatterns ==
    (/\ dump.done /\ dump.err = "nil"
     /\ dump.before.state = "ok"
     /\ dump.before.patterns.kind = "list"
     /\ dump.before.patterns.items # <<>>)
    => /\ config.state = "ok"
       /\ config.patterns = dump.before.patterns
       /\ \A K \in UpperKeys : config.keys[K] = translationKeyMap[K]

\* A file with a three-pattern list was rewritten with a looked-up key in it.
DumpedWithPatternsAndKey ==
    /\ dump.done /\ dump.err = "nil"
    /\ dump.before.patterns =
          ListField(<<CoAuthorPattern, BadPattern, FooterPattern>>)
    /\ config.patterns = dump.before.patterns
    /\ translationKeyMap["A"] = "env1"
    /\ config.keys["A"] = "env1"
    /\ dump.before.keys["A"] = NoValue

\* C28: the lookup function caches per upper-cased key: every lookup of a key
\* returns what the first lookup of that key returned, whatever default it is
\* given and whatever the environment variable holds by then; the first lookup
\* returns the environment variable when it is set, else the config file
\* value when there is one, else the default.
LookupCachedPerKey ==
    lookup.done =>
        LET K == ToUpper(lookup.key)
        IN  /\ lookup.value = firstAnswer[K]
            /\ translationKeyMap[K] = firstAnswer[K]
            /\ lookup.first =>
                  lookup.value =
                      IF lookup.envThen # NoValue THEN lookup.envThen
                      ELSE IF helper.v.keys[K] # NoValue THEN helper.v.keys[K]
                      ELSE lookup.defaultValue

\* C28 witness: "A" was first looked up with default d1 and nothing else set;
\* a later lookup of "a" with default d2, the variable now set, returns d1.
LaterLookupKeepsFirstValue ==
    /\ lookup.done
    /\ ~lookup.first
    /\ lookup.key = "a"
    /\ lookup.defaultValue = "d2"
    /\ lookup.envThen = "env2"
    /\ lookup.value = "d1"

====
